---- MODULE Spec2Model ----
(***************************************************************************)
(* Model of the SSE backend of sbk0716/sse-tutorial: the client registry   *)
(* (models/client.ts), the event counter and event cache (models/event.ts),*)
(* the two admission controllers with their idle watchdog and close        *)
(* handler (controllers/eventController.ts), the authentication middleware *)
(* (middleware/auth.ts) and the atomic and chunked broadcasts              *)
(* (controllers/messageController.ts).                                     *)
(*                                                                         *)
(* Node runs every handler to completion on one thread, so one action is   *)
(* one handler (or one timer / event callback) from entry to return.       *)
(***************************************************************************)
EXTENDS Integers, Sequences, FiniteSets, TLC

(***************************************************************************)
(* Program constants.  config/index.ts sets MAX_CLIENTS = 1000 and         *)
(* MAX_CACHE_SIZE = 100; the model keeps the names and the comparisons     *)
(* made against them and scales the values so that a full registry and an  *)
(* evicting cache are reached.                                             *)
(***************************************************************************)
MAX_CLIENTS == 2
MAX_CACHE_SIZE == 2
RETRY_MS == 3000

(***************************************************************************)
(* Bounds of the model.                                                    *)
(***************************************************************************)
\* Response objects of event streams alive at the same time (an object is
\* reclaimed once its request has closed and the registry holds no entry
\* for it).
MaxRes == 3
\* Last value of the millisecond clock Date.now(); the clock starts at 1.
MaxClock == 2
\* No stream is opened and no broadcast request is served once eventId has
\* reached this value (the counter itself is unbounded).
MaxEventId == 3
\* Chunked broadcasts in progress at the same time.
MaxStreams == 1

VARIABLES
    clients,       \* models/client.ts `clients`: array of {id, res, user}
    eventCache,    \* models/event.ts `eventCache`: array of {id, type, data}
    eventId,       \* models/event.ts `eventId`
    now,           \* Date.now()
    sink,          \* per response object: the frames written to its stream
    sinkState,     \* per response object: "none", "open", "broken", "ended", "closed"
    clientIdOf,    \* per response object: the clientId captured by its closures
    timer,         \* per response object: idle watchdog "none", "armed", "fired"
    closeHandler,  \* per response object: req.on("close") "none", "installed"
    streams,       \* closures of the chunked broadcasts in progress (streamMessage)
    completed,     \* what the last step logged as "streaming complete": <<count>> or <<>>
    response,      \* what the last step answered to a short-lived request
    request,       \* the carriers of a GET /secure-events request on its way in
    \* frontend/src/app/lib/api.ts, the closure of one connectToEvents call
    sseConnection,      \* `sseConnection`: 0 for null, or the EventSource it refers to
    sources,            \* the EventSource objects created: their readyState
    reconnectAttempts,  \* `reconnectAttempts`
    reconnectTimer,     \* `reconnectTimer`: 0 for null, or the timer it refers to
    timers,             \* the timers created by setTimeout: state and delay
    reported,           \* the state last passed to notifyConnectionStateChange
    \* the EventListener component of the page
    pageEvents,         \* `events` of the component: the list it shows
    received            \* how many frames of its stream the page has been handed

\* The variables of the browser side.
browser == <<sseConnection, sources, reconnectAttempts, reconnectTimer, timers,
             reported, pageEvents, received>>

vars == <<clients, eventCache, eventId, now, sink, sinkState,
          clientIdOf, timer, closeHandler, streams, completed, response, request,
          browser>>

Res == 1..MaxRes

----------------------------------------------------------------------------
(***************************************************************************)
(* Strings are sequences of one-character strings.                         *)
(***************************************************************************)
Digits == <<"0", "1", "2", "3", "4", "5", "6", "7", "8", "9">>
IsDigit(ch) == \E i \in 1..10 : Digits[i] = ch
DigitVal(ch) == (CHOOSE i \in 1..10 : Digits[i] = ch) - 1

\* The value of a request header or body field that is absent (undefined).
Undefined == <<"undefined">>

\* JavaScript truthiness of (string | undefined): undefined and "" are falsy.
Truthy(s) == s # Undefined /\ s # <<>>

RECURSIVE ParseDigits(_, _, _)
\* Longest prefix of decimal digits of s from position i on; acc is the value
\* read so far and seen says whether a digit was read.
ParseDigits(s, i, acc) ==
    IF i <= Len(s) /\ IsDigit(s[i])
    THEN ParseDigits(s, i + 1, [val |-> acc.val * 10 + DigitVal(s[i]), seen |-> TRUE])
    ELSE acc

\* parseInt(s): optional sign, then the longest run of digits; NaN when no
\* digit follows.  The result is [nan, val].
parseInt(s) ==
    LET neg   == Len(s) >= 1 /\ s[1] = "-"
        start == IF Len(s) >= 1 /\ (s[1] = "-" \/ s[1] = "+") THEN 2 ELSE 1
        d     == ParseDigits(s, start, [val |-> 0, seen |-> FALSE])
    IN  IF d.seen THEN [nan |-> FALSE, val |-> IF neg THEN 0 - d.val ELSE d.val]
        ELSE [nan |-> TRUE, val |-> 0]

\* Mutant: the filter keeps the last event the client has seen (>=).
GreaterOrEqual(id, n) == ~n.nan /\ id >= n.val

\* event.id > lastEventId where lastEventId may be NaN (every comparison
\* with NaN is false).
GreaterThan(id, n) == ~n.nan /\ id > n.val

\* Mutant: runs of spaces separate, and spaces at the ends are dropped
\* (the words of the text, as split(/\s+/) on the trimmed text gives them).
split_words(s) ==
    LET spaces == SelectSeq([i \in 1..Len(s) |-> i], LAMBDA i : s[i] = " ")
        cuts   == <<0>> \o spaces \o <<Len(s) + 1>>
        pieces == [j \in 1..(Len(spaces) + 1) |-> SubSeq(s, cuts[j] + 1, cuts[j + 1] - 1)]
    IN  SelectSeq(pieces, LAMBDA p : p # <<>>)

\* message.split(" "): the pieces between consecutive separators, an empty
\* piece where two separators meet or one stands at an end.
split(s) ==
    LET spaces == SelectSeq([i \in 1..Len(s) |-> i], LAMBDA i : s[i] = " ")
        cuts   == <<0>> \o spaces \o <<Len(s) + 1>>
    IN  [j \in 1..(Len(spaces) + 1) |-> SubSeq(s, cuts[j] + 1, cuts[j + 1] - 1)]

----------------------------------------------------------------------------
(***************************************************************************)
(* models/client.ts                                                        *)
(***************************************************************************)
\* clients.findIndex((client) => client.id === clientId); 0 stands for -1.
findIndex(cl, clientId) ==
    IF \E i \in 1..Len(cl) : cl[i].id = clientId
    THEN CHOOSE i \in 1..Len(cl) :
            /\ cl[i].id = clientId
            /\ \A j \in 1..(i - 1) : cl[j].id # clientId
    ELSE 0

addClient(cl, client) == Append(cl, client)

removeClient(cl, clientId) ==
    LET index == findIndex(cl, clientId)
    IN  IF index # 0
        THEN SubSeq(cl, 1, index - 1) \o SubSeq(cl, index + 1, Len(cl))
        ELSE cl

----------------------------------------------------------------------------
(***************************************************************************)
(* models/event.ts.  The handlers thread a store [eventId, eventCache,     *)
(* sink, sinkState, threw] through their calls; threw records that the     *)
(* last call raised an exception.                                          *)
(***************************************************************************)
Store == [eventId |-> eventId, eventCache |-> eventCache, sink |-> sink,
          sinkState |-> sinkState, threw |-> FALSE]

\* res.write succeeds on an open stream and throws on any other.
Writable(s, res) == s.sinkState[res] = "open"

\* Mutant: the cache is trimmed one entry too late.
sendEvent_trimsLate(s, res, type, data) ==
    LET id == s.eventId + 1
    IN  IF ~Writable(s, res)
        THEN [s EXCEPT !.eventId = id, !.threw = TRUE]
        ELSE LET pushed == Append(s.eventCache, [id |-> id, type |-> type, data |-> data])
             IN  [s EXCEPT !.eventId = id,
                           !.sink[res] = Append(@, [id |-> id, type |-> type, data |-> data]),
                           !.eventCache = IF Len(pushed) > MAX_CACHE_SIZE + 1
                                          THEN Tail(pushed) ELSE pushed,
                           !.threw = FALSE]

\* Mutant: the counter is read but not advanced (eventId + 1 for eventId++).
sendEvent_noIncrement(s, res, type, data) ==
    LET id == s.eventId + 1
    IN  IF ~Writable(s, res)
        THEN [s EXCEPT !.threw = TRUE]
        ELSE LET pushed == Append(s.eventCache, [id |-> id, type |-> type, data |-> data])
             IN  [s EXCEPT !.sink[res] = Append(@, [id |-> id, type |-> type, data |-> data]),
                           !.eventCache = IF Len(pushed) > MAX_CACHE_SIZE
                                          THEN Tail(pushed) ELSE pushed,
                           !.threw = FALSE]

\* Mutant: the new entry is put at the front of the cache (unshift for push).
sendEvent_unshift(s, res, type, data) ==
    LET id == s.eventId + 1
    IN  IF ~Writable(s, res)
        THEN [s EXCEPT !.eventId = id, !.threw = TRUE]
        ELSE LET pushed == <<[id |-> id, type |-> type, data |-> data]>> \o s.eventCache
             IN  [s EXCEPT !.eventId = id,
                           !.sink[res] = Append(@, [id |-> id, type |-> type, data |-> data]),
                           !.eventCache = IF Len(pushed) > MAX_CACHE_SIZE
                                          THEN Tail(pushed) ELSE pushed,
                           !.threw = FALSE]

sendEvent(s, res, type, data) ==
    LET id == s.eventId + 1
    IN  IF ~Writable(s, res)
        THEN \* the first res.write throws: the counter is already incremented
             [s EXCEPT !.eventId = id, !.threw = TRUE]
        ELSE LET pushed == Append(s.eventCache, [id |-> id, type |-> type, data |-> data])
             IN  [s EXCEPT !.eventId = id,
                           !.sink[res] = Append(@, [id |-> id, type |-> type, data |-> data]),
                           !.eventCache = IF Len(pushed) > MAX_CACHE_SIZE
                                          THEN Tail(pushed) ELSE pushed,
                           !.threw = FALSE]

RECURSIVE SendAll(_, _, _, _)
\* missedEvents.forEach((event) => sendEvent(res, event.type, event.data));
\* an exception ends the loop.
SendAll(s, res, events, i) ==
    IF i > Len(events) \/ s.threw THEN s
    ELSE SendAll(sendEvent(s, res, events[i].type, events[i].data), res, events, i + 1)

sendMissedEvents(s, res, lastEventId) ==
    LET missedEvents == SelectSeq(s.eventCache, LAMBDA event : GreaterThan(event.id, lastEventId))
    IN  SendAll(s, res, missedEvents, 1)

----------------------------------------------------------------------------
(***************************************************************************)
(* Requests.                                                               *)
(***************************************************************************)
\* Values of the Last-Event-ID request header.
LastEventIds == {Undefined, <<>>, <<"0">>, <<"1">>, <<"x">>}

\* Tokens: jwt.verify accepts "good" and throws on every other token.
Tokens == {"good", "bad"}
NoToken == ""
NoUser == [id |-> 0, username |-> "", role |-> ""]
verify(token) ==
    IF token = "good"
    THEN [threw |-> FALSE, decoded |-> [id |-> 1, username |-> "user01", role |-> "user"]]
    ELSE [threw |-> TRUE, decoded |-> NoUser]

\* The three carriers of a /secure-events request: the Authorization header
\* (absent, or a scheme and what follows the first space), the token query
\* parameter and the auth_token cookie (absent is NoToken).
AuthCarriers ==
    [authorization : {[scheme |-> "", rest |-> NoToken]}
                        \cup [scheme : {"Bearer", "Basic"}, rest : {NoToken} \cup Tokens],
     tokenQuery    : {NoToken} \cup Tokens,
     tokenCookie   : {NoToken} \cup Tokens]

\* The /secure-events requests of the server model: a valid Bearer header, no
\* carrier at all, and an invalid token in the query parameter.
AuthRequests ==
    {[authorization |-> [scheme |-> "Bearer", rest |-> "good"],
      tokenQuery |-> NoToken, tokenCookie |-> NoToken],
     [authorization |-> [scheme |-> "", rest |-> NoToken],
      tokenQuery |-> NoToken, tokenCookie |-> NoToken],
     [authorization |-> [scheme |-> "", rest |-> NoToken],
      tokenQuery |-> "bad", tokenCookie |-> NoToken]}
\* No /secure-events request is on its way in.
NoRequest == [authorization |-> [scheme |-> "none", rest |-> NoToken],
              tokenQuery |-> NoToken, tokenCookie |-> NoToken]

\* Texts faker can produce for generateResponseFromClientMessage: one word,
\* two words.
Texts == {<<"a">>, <<"a", " ", "b">>}
\* req.body.message: absent, empty, or a text.
BodyMessages == {Undefined, <<>>, <<"hi">>}
\* The source's Japanese literals are written in ASCII.
DefaultMessage == <<"default-message">>

\* generateResponseFromClientMessage for the client messages of BodyMessages
\* and the default message: a greeting ("hi") is answered by the client
\* message, an exclamation mark and the text faker produced; a message with
\* no keyword by the quoted client message and the text faker produced.
generateResponseFromClientMessage(clientMessage, faker) ==
    IF clientMessage = <<"hi">>
    THEN clientMessage \o <<"!">> \o faker
    ELSE <<"[">> \o clientMessage \o <<"]">> \o faker

----------------------------------------------------------------------------
(***************************************************************************)
(* middleware/auth.ts                                                      *)
(***************************************************************************)
\* Mutant: the middleware tries the carriers in turn until one verifies.
authMiddleware_fallThrough(req) ==
    LET held  == <<IF req.authorization.scheme = "Bearer" THEN req.authorization.rest
                   ELSE NoToken,
                   req.tokenQuery, req.tokenCookie>>
        valid == SelectSeq(held, LAMBDA t : t # NoToken /\ ~verify(t).threw)
    IN  IF valid = <<>> THEN [status |-> 401, user |-> NoUser]
        ELSE [status |-> 0, user |-> verify(valid[1]).decoded]

\* The result is [status, user]: status 401 when the middleware answers
\* itself, 0 when it calls next() with req.user set.
authMiddleware(req) ==
    LET token == IF req.authorization.scheme = "Bearer" THEN req.authorization.rest
                 ELSE IF req.tokenQuery # NoToken THEN req.tokenQuery
                 ELSE IF req.tokenCookie # NoToken THEN req.tokenCookie
                 ELSE NoToken
    IN  IF token = NoToken THEN [status |-> 401, user |-> NoUser]
        ELSE IF verify(token).threw THEN [status |-> 401, user |-> NoUser]
        ELSE [status |-> 0, user |-> verify(token).decoded]

----------------------------------------------------------------------------
(***************************************************************************)
(* controllers/eventController.ts                                          *)
(***************************************************************************)
Registered(res) == \E i \in 1..Len(clients) : clients[i].res = res

\* A response object is reclaimed when its request has closed and the
\* registry holds no entry for it; the next stream takes the first free one.
Free(res) == sinkState[res] \in {"none", "closed"} /\ ~Registered(res)
NewRes == CHOOSE r \in Res : Free(r) /\ \A q \in 1..(r - 1) : ~Free(q)

RetryFrame == [id |-> 0, type |-> "retry", data |-> [retry |-> RETRY_MS]]
WelcomeMessage == <<"connection-established">>
WelcomeUser(user) == <<user.username, "-connection-established">>

\* Mutant: the handler yields before addClient and registers the stream in a
\* later turn of the event loop.
OpenStream_registersLater(op, user, welcome, lastEventId) ==
    /\ eventId < MaxEventId
    /\ \E r \in Res : Free(r)
    /\ response' = [op |-> op, status |-> 200, recipients |-> 0]
    /\ completed' = <<>>
    /\ LET res      == NewRes
           clientId == now
           s0 == [Store EXCEPT !.sink[res] = <<RetryFrame>>,
                               !.sinkState[res] = "open"]
           s1 == IF Truthy(lastEventId)
                 THEN sendMissedEvents(s0, res, parseInt(lastEventId))
                 ELSE s0
           cl == addClient(clients, [id |-> clientId, res |-> res, user |-> user])
           s2 == sendEvent(s1, res, "system", welcome)
       IN  /\ clients' = clients
           /\ eventId' = s2.eventId
           /\ eventCache' = s2.eventCache
           /\ sink' = s2.sink
           /\ sinkState' = s2.sinkState
           /\ clientIdOf' = [clientIdOf EXCEPT ![res] = clientId]
           /\ timer' = [timer EXCEPT ![res] = "armed"]
           /\ closeHandler' = [closeHandler EXCEPT ![res] = "installed"]
           /\ UNCHANGED <<now, request, browser, streams>>

\* Mutant: the welcome event is written before the missed events.
OpenStream_welcomeFirst(op, user, welcome, lastEventId) ==
    /\ eventId < MaxEventId
    /\ \E r \in Res : Free(r)
    /\ response' = [op |-> op, status |-> 200, recipients |-> 0]
    /\ completed' = <<>>
    /\ LET res      == NewRes
           clientId == now
           s0 == [Store EXCEPT !.sink[res] = <<RetryFrame>>,
                               !.sinkState[res] = "open"]
           cl == addClient(clients, [id |-> clientId, res |-> res, user |-> user])
           s1 == sendEvent(s0, res, "system", welcome)
           s2 == IF Truthy(lastEventId)
                 THEN sendMissedEvents(s1, res, parseInt(lastEventId))
                 ELSE s1
       IN  /\ clients' = cl
           /\ eventId' = s2.eventId
           /\ eventCache' = s2.eventCache
           /\ sink' = s2.sink
           /\ sinkState' = s2.sinkState
           /\ clientIdOf' = [clientIdOf EXCEPT ![res] = clientId]
           /\ timer' = [timer EXCEPT ![res] = "armed"]
           /\ closeHandler' = [closeHandler EXCEPT ![res] = "installed"]
           /\ UNCHANGED <<now, request, browser, streams>>

\* The part of both controllers after the capacity check; welcome is the
\* data of the system event.
OpenStream(op, user, welcome, lastEventId) ==
    /\ eventId < MaxEventId
    /\ \E r \in Res : Free(r)
    /\ response' = [op |-> op, status |-> 200, recipients |-> 0]
    /\ completed' = <<>>
    /\ LET res      == NewRes
           clientId == now
           s0 == [Store EXCEPT !.sink[res] = <<RetryFrame>>,
                               !.sinkState[res] = "open"]
           s1 == IF Truthy(lastEventId)
                 THEN sendMissedEvents(s0, res, parseInt(lastEventId))
                 ELSE s0
           cl == addClient(clients, [id |-> clientId, res |-> res, user |-> user])
           s2 == sendEvent(s1, res, "system", welcome)
       IN  /\ clients' = cl
           /\ eventId' = s2.eventId
           /\ eventCache' = s2.eventCache
           /\ sink' = s2.sink
           /\ sinkState' = s2.sinkState
           /\ clientIdOf' = [clientIdOf EXCEPT ![res] = clientId]
           /\ timer' = [timer EXCEPT ![res] = "armed"]
           /\ closeHandler' = [closeHandler EXCEPT ![res] = "installed"]
           /\ UNCHANGED <<now, request, browser, streams>>

\* The outputs of a step that answers no request and logs no completion.
NoResponse == [op |-> "none", status |-> 0, recipients |-> 0]
Silent == response' = NoResponse /\ completed' = <<>>

Reject(op, status) ==
    /\ response' = [op |-> op, status |-> status, recipients |-> 0]
    /\ completed' = <<>>
    /\ UNCHANGED <<clients, eventCache, eventId, now, request, browser, sink, sinkState,
                   clientIdOf, timer, closeHandler, streams>>

\* Mutant: the capacity check admits one stream too many (> for >=).
connectSSE_offByOne(lastEventId) ==
    IF Len(clients) > MAX_CLIENTS
    THEN Reject("connectSSE", 503)
    ELSE OpenStream("connectSSE", NoUser,
                    [type |-> "info", message |-> WelcomeMessage], lastEventId)

connectSSE(lastEventId) ==
    IF Len(clients) >= MAX_CLIENTS
    THEN Reject("connectSSE", 503)
    ELSE OpenStream("connectSSE", NoUser,
                    [type |-> "info", message |-> WelcomeMessage], lastEventId)

\* Mutant: the stream headers and the retry directive are written before
\* the capacity check.
connectSecureSSE_preambleFirst(user, lastEventId) ==
    IF Len(clients) >= MAX_CLIENTS
    THEN /\ \E r \in Res : Free(r)
         /\ response' = [op |-> "connectSecureSSE", status |-> 503, recipients |-> 0]
         /\ sink' = [sink EXCEPT ![NewRes] = <<RetryFrame>>]
         /\ completed' = <<>>
         /\ UNCHANGED <<clients, eventCache, eventId, now, request, browser, sinkState,
                        clientIdOf, timer, closeHandler, streams>>
    ELSE OpenStream("connectSecureSSE", user,
                    [type |-> "info",
                     message |-> IF user # NoUser THEN WelcomeUser(user) ELSE WelcomeMessage],
                    lastEventId)

connectSecureSSE(user, lastEventId) ==
    IF Len(clients) >= MAX_CLIENTS
    THEN Reject("connectSecureSSE", 503)
    ELSE OpenStream("connectSecureSSE", user,
                    [type |-> "info",
                     message |-> IF user # NoUser THEN WelcomeUser(user) ELSE WelcomeMessage],
                    lastEventId)

\* The setTimeout callback of the stream on res (30 minutes after admission).
IdleTimeout(res) ==
    /\ timer[res] = "armed"
    /\ timer' = [timer EXCEPT ![res] = "fired"]
    /\ LET clientId == clientIdOf[res]
           index    == findIndex(clients, clientId)
       IN  IF index # 0
           THEN /\ clients' = removeClient(clients, clientId)
                /\ sinkState' = [sinkState EXCEPT ![res] = "ended"]
           ELSE UNCHANGED <<clients, sinkState>>
    /\ Silent
    /\ UNCHANGED <<eventCache, eventId, now, request, browser, sink, clientIdOf, closeHandler, streams>>

\* The req.on("close") handler of the stream on res; Node emits "close" once,
\* when the peer goes away or after the response has ended.
\* After it the request, its closures and its timer are dead: the model
\* forgets them and what was written to the closed stream.
RequestClose(res) ==
    /\ closeHandler[res] = "installed"
    /\ closeHandler' = [closeHandler EXCEPT ![res] = "none"]
    /\ timer' = [timer EXCEPT ![res] = "none"]
    /\ clients' = removeClient(clients, clientIdOf[res])
    /\ sinkState' = [sinkState EXCEPT ![res] = "closed"]
    /\ sink' = [sink EXCEPT ![res] = <<>>]
    /\ clientIdOf' = [clientIdOf EXCEPT ![res] = 0]
    /\ Silent
    /\ UNCHANGED <<eventCache, eventId, now, request, browser, streams>>

----------------------------------------------------------------------------
(***************************************************************************)
(* routes/events.ts                                                        *)
(***************************************************************************)
\* router.get("/events", connectSSE)
GetEvents == \E lastEventId \in LastEventIds : connectSSE(lastEventId)

\* Mutant: the controller runs whatever the middleware decided.
SecureEvents_noAuth(req, lastEventId) ==
    connectSecureSSE(authMiddleware(req).user, lastEventId)

\* Mutant: the capacity check of the controller runs before the middleware.
SecureEvents_capacityFirst(req, lastEventId) ==
    IF Len(clients) >= MAX_CLIENTS
    THEN Reject("connectSecureSSE", 503)
    ELSE LET auth == authMiddleware(req)
         IN  IF auth.status = 401
             THEN Reject("authMiddleware", 401)
             ELSE connectSecureSSE(auth.user, lastEventId)


\* router.get("/secure-events", authMiddleware, connectSecureSSE)
SecureEvents(req, lastEventId) ==
    LET auth == authMiddleware(req)
    IN  IF auth.status = 401
        THEN Reject("authMiddleware", 401)
        ELSE connectSecureSSE(auth.user, lastEventId)

GetSecureEvents ==
    \E req \in AuthRequests, lastEventId \in LastEventIds : SecureEvents(req, lastEventId)

----------------------------------------------------------------------------
(***************************************************************************)
(* controllers/messageController.ts                                        *)
(***************************************************************************)
RECURSIVE forEachClient_noCatch(_, _, _, _, _)
\* Mutant: no try/catch around sendEvent, so the first exception ends the loop.
forEachClient_noCatch(acc, cl, i, type, data) ==
    IF i > Len(cl) \/ acc.s.threw THEN acc
    ELSE LET s1 == sendEvent(acc.s, cl[i].res, type, data)
         IN  forEachClient_noCatch([s    |-> s1,
                                    sent |-> IF s1.threw THEN acc.sent ELSE acc.sent + 1],
                                   cl, i + 1, type, data)

RECURSIVE forEachClient(_, _, _, _, _)
\* clients.forEach((client) => { try { sendEvent(client.res, type, data);
\* <count> } catch (error) { console.error(...) } }) from client i on.
\* acc is [s, sent]: the store, and the clients for which sendEvent returned.
forEachClient(acc, cl, i, type, data) ==
    IF i > Len(cl) THEN acc
    ELSE LET s1 == sendEvent(acc.s, cl[i].res, type, data)
         IN  forEachClient([s    |-> [s1 EXCEPT !.threw = FALSE],
                            sent |-> IF s1.threw THEN acc.sent ELSE acc.sent + 1],
                           cl, i + 1, type, data)

\* new Date().toISOString(): the clock value stands for its rendering.
toISOString(t) == t

\* Mutant: the event carries the client's message, not the generated text.
sendMessage_echo(bodyMessage, faker) ==
    LET clientMessage == IF Truthy(bodyMessage) THEN bodyMessage ELSE DefaultMessage
        message       == generateResponseFromClientMessage(clientMessage, faker)
        timestamp     == toISOString(now)
        out == forEachClient([s |-> Store, sent |-> 0], clients, 1, "message",
                             [time |-> timestamp, message |-> clientMessage])
    IN  /\ eventId' = out.s.eventId
        /\ eventCache' = out.s.eventCache
        /\ sink' = out.s.sink
        /\ response' = [op |-> "sendMessage", status |-> 200, recipients |-> out.sent]
        /\ completed' = <<>>
        /\ UNCHANGED <<clients, now, request, browser, sinkState, clientIdOf, timer,
                       closeHandler, streams>>

\* faker is the text faker produces during the call.
\* Mutant: a request body without a message is refused.
sendMessage_requiresMessage(bodyMessage, faker) ==
    IF ~Truthy(bodyMessage)
    THEN /\ response' = [op |-> "sendMessage", status |-> 400, recipients |-> 0]
         /\ completed' = <<>>
         /\ UNCHANGED <<clients, eventCache, eventId, now, request, browser, sink, sinkState,
                        clientIdOf, timer, closeHandler, streams>>
    ELSE LET message   == generateResponseFromClientMessage(bodyMessage, faker)
             timestamp == toISOString(now)
             out == forEachClient([s |-> Store, sent |-> 0], clients, 1, "message",
                                  [time |-> timestamp, message |-> message])
         IN  /\ eventId' = out.s.eventId
             /\ eventCache' = out.s.eventCache
             /\ sink' = out.s.sink
             /\ response' = [op |-> "sendMessage", status |-> 200, recipients |-> out.sent]
             /\ completed' = <<>>
             /\ UNCHANGED <<clients, now, request, browser, sinkState, clientIdOf, timer,
                            closeHandler, streams>>

\* Mutant: a client whose write failed is taken out of the registry.
sendMessage_dropsFailed(bodyMessage, faker) ==
    LET clientMessage == IF Truthy(bodyMessage) THEN bodyMessage ELSE DefaultMessage
        message       == generateResponseFromClientMessage(clientMessage, faker)
        timestamp     == toISOString(now)
        out == forEachClient([s |-> Store, sent |-> 0], clients, 1, "message",
                             [time |-> timestamp, message |-> message])
    IN  /\ eventId' = out.s.eventId
        /\ eventCache' = out.s.eventCache
        /\ sink' = out.s.sink
        /\ clients' = SelectSeq(clients, LAMBDA c : Writable(Store, c.res))
        /\ response' = [op |-> "sendMessage", status |-> 200, recipients |-> out.sent]
        /\ completed' = <<>>
        /\ UNCHANGED <<now, request, browser, sinkState, clientIdOf, timer, closeHandler, streams>>

sendMessage(bodyMessage, faker) ==
    LET clientMessage == IF Truthy(bodyMessage) THEN bodyMessage ELSE DefaultMessage
        message       == generateResponseFromClientMessage(clientMessage, faker)
        timestamp     == toISOString(now)
        out == forEachClient([s |-> Store, sent |-> 0], clients, 1, "message",
                             [time |-> timestamp, message |-> message])
    IN  /\ eventId' = out.s.eventId
        /\ eventCache' = out.s.eventCache
        /\ sink' = out.s.sink
        /\ response' = [op |-> "sendMessage", status |-> 200, recipients |-> out.sent]
        /\ completed' = <<>>
        /\ UNCHANGED <<clients, now, request, browser, sinkState, clientIdOf, timer,
                       closeHandler, streams>>

(***************************************************************************)
(* JavaScript numbers are IEEE 754 doubles: a significand of 53 bits and   *)
(* an exponent.  A positive double is [m, e]: after its leading bit 1, of  *)
(* weight 2^e, the significand is the four digits m[1..4] in base Limb     *)
(* (13 bits each), the most significant first.  Every operation rounds to  *)
(* nearest, ties to even.                                                  *)
(***************************************************************************)
Limb == 2^13

RECURSIVE Scale(_, _, _)
\* [k, n, e] with n <= k < 2n and (k / n) * 2^e the quotient asked for.
Scale(k, n, e) ==
    IF k < n THEN Scale(2 * k, n, e - 1)
    ELSE IF k >= 2 * n THEN Scale(k, 2 * n, e + 1)
    ELSE [k |-> k, n |-> n, e |-> e]

RECURSIVE DivLimbs(_, _, _)
\* The four digits of r / n after the leading bit, for r < n, and the
\* remainder they leave.
DivLimbs(r, n, limbs) ==
    IF Len(limbs) = 4 THEN [m |-> limbs, rest |-> r]
    ELSE DivLimbs((r * Limb) % n, n, Append(limbs, (r * Limb) \div n))

RECURSIVE Increment(_, _)
\* limbs + 1, the carry entering at digit i; all zeros when the carry
\* leaves at the top.
Increment(limbs, i) ==
    IF i = 0 THEN limbs
    ELSE IF limbs[i] + 1 < Limb THEN [limbs EXCEPT ![i] = @ + 1]
    ELSE Increment([limbs EXCEPT ![i] = 0], i - 1)

\* The double with digits limbs, one unit in the last place higher if up.
Round(limbs, e, up) ==
    IF ~up THEN [m |-> limbs, e |-> e]
    ELSE IF \A i \in 1..4 : limbs[i] = Limb - 1
    THEN [m |-> <<0, 0, 0, 0>>, e |-> e + 1]
    ELSE [m |-> Increment(limbs, 4), e |-> e]

\* k / n for positive integers k and n.
Divide(k, n) ==
    LET sc == Scale(k, n, 0)
        q  == DivLimbs(sc.k - sc.n, sc.n, <<>>)
        up == 2 * q.rest > sc.n \/ (2 * q.rest = sc.n /\ q.m[4] % 2 = 1)
    IN  Round(q.m, sc.e, up)

RECURSIVE TimesLimbs(_, _, _, _)
\* limbs * c from digit i down to digit 1; acc is [m, carry].
TimesLimbs(limbs, c, i, acc) ==
    IF i = 0 THEN acc
    ELSE LET t == limbs[i] * c + acc.carry
         IN  TimesLimbs(limbs, c, i - 1,
                        [m |-> <<t % Limb>> \o acc.m, carry |-> t \div Limb])

RECURSIVE BitLength(_)
BitLength(n) == IF n = 0 THEN 0 ELSE BitLength(n \div 2) + 1

\* x * c for a double x and an integer 0 < c < Limb.
Times(x, c) ==
    LET p       == TimesLimbs(x.m, c, 4, [m |-> <<>>, carry |-> 0])
        top     == c + p.carry
        extra   == BitLength(top) - 1
        unit    == 2^extra
        high    == <<top % unit>> \o SubSeq(p.m, 1, 3)
        kept    == [i \in 1..4 |->
                       (high[i] % unit) * (Limb \div unit) + p.m[i] \div unit]
        dropped == p.m[4] % unit
        up      == \/ 2 * dropped > unit
                   \/ 2 * dropped = unit /\ kept[4] % 2 = 1
    IN  Round(kept, x.e + extra, up)

\* Math.floor(x) for a double 0 < x < 2 * Limb.
floor(x) == IF x.e < 0 THEN 0 ELSE (Limb + x.m[1]) \div 2^(13 - x.e)

\* Mutant: the percentage of the chunks that remain.
Progress_ofRemaining(chunkIndex, n) ==
    IF chunkIndex = n THEN 0 ELSE floor(Times(Divide(n - chunkIndex, n), 100))

\* Math.floor((chunkIndex / chunks.length) * 100)
Progress(chunkIndex, n) ==
    IF chunkIndex = 0 THEN 0 ELSE floor(Times(Divide(chunkIndex, n), 100))

\* Mutant: the chunks are pipelined per client: each client gets two chunk
\* steps in a row before the next client gets the first of them.
RECURSIVE PerClient(_, _, _, _)
PerClient(acc, cl, i, frames) ==
    IF i > Len(cl) THEN acc
    ELSE LET a1 == forEachClient(acc, <<cl[i]>>, 1, "partial-message", frames[1])
             a2 == IF Len(frames) > 1
                   THEN forEachClient([a1 EXCEPT !.sent = acc.sent], <<cl[i]>>, 1,
                                      "partial-message", frames[2])
                   ELSE a1
         IN  PerClient(a2, cl, i + 1, frames)
sendNextChunk_pipelined(st, s, cl) ==
    IF st.chunkIndex < Len(st.chunks)
    THEN LET n     == Len(st.chunks)
             first == st.accumulatedMessage
                          \o (IF st.chunkIndex > 0 THEN <<" ">> ELSE <<>>)
                          \o st.chunks[st.chunkIndex + 1]
             two   == st.chunkIndex + 2 <= n
             accumulatedMessage ==
                 IF two THEN first \o <<" ">> \o st.chunks[st.chunkIndex + 2] ELSE first
             chunkIndex == IF two THEN st.chunkIndex + 2 ELSE st.chunkIndex + 1
             isComplete == chunkIndex >= n
             frame(m, k) == [time       |-> st.timestamp,
                             message    |-> m,
                             isComplete |-> k >= n,
                             progress   |-> Progress(k, n)]
             out == PerClient([s |-> s, sent |-> 0], cl, 1,
                              IF two THEN <<frame(first, st.chunkIndex + 1),
                                            frame(accumulatedMessage, chunkIndex)>>
                                     ELSE <<frame(first, chunkIndex)>>)
         IN  [st |-> [st EXCEPT !.accumulatedMessage = accumulatedMessage,
                                !.chunkIndex = chunkIndex,
                                !.successCount = IF isComplete THEN @ + out.sent ELSE @,
                                !.pending = ~isComplete,
                                !.done = isComplete],
              s  |-> out.s]
    ELSE [st |-> [st EXCEPT !.pending = FALSE], s |-> s]

\* Mutant: successCount++ runs in every step, not in the final one only.
sendNextChunk_countsEveryStep(st, s, cl) ==
    IF st.chunkIndex < Len(st.chunks)
    THEN LET accumulatedMessage ==
                 st.accumulatedMessage
                     \o (IF st.chunkIndex > 0 THEN <<" ">> ELSE <<>>)
                     \o st.chunks[st.chunkIndex + 1]
             chunkIndex == st.chunkIndex + 1
             isComplete == chunkIndex >= Len(st.chunks)
             out == forEachClient([s |-> s, sent |-> 0], cl, 1, "partial-message",
                                  [time       |-> st.timestamp,
                                   message    |-> accumulatedMessage,
                                   isComplete |-> isComplete,
                                   progress   |-> Progress(chunkIndex, Len(st.chunks))])
         IN  [st |-> [st EXCEPT !.accumulatedMessage = accumulatedMessage,
                                !.chunkIndex = chunkIndex,
                                !.successCount = @ + out.sent,
                                !.pending = ~isComplete,
                                !.done = isComplete],
              s  |-> out.s]
    ELSE [st |-> [st EXCEPT !.pending = FALSE], s |-> s]

\* One call of the closure sendNextChunk of the chunked broadcast st, on store
\* s and registry cl.  The result is [st, s].
sendNextChunk(st, s, cl) ==
    IF st.chunkIndex < Len(st.chunks)
    THEN LET accumulatedMessage ==
                 st.accumulatedMessage
                     \o (IF st.chunkIndex > 0 THEN <<" ">> ELSE <<>>)
                     \o st.chunks[st.chunkIndex + 1]
             chunkIndex == st.chunkIndex + 1
             isComplete == chunkIndex >= Len(st.chunks)
             out == forEachClient([s |-> s, sent |-> 0], cl, 1, "partial-message",
                                  [time       |-> st.timestamp,
                                   message    |-> accumulatedMessage,
                                   isComplete |-> isComplete,
                                   progress   |-> Progress(chunkIndex, Len(st.chunks))])
         IN  [st |-> [st EXCEPT !.accumulatedMessage = accumulatedMessage,
                                !.chunkIndex = chunkIndex,
                                \* successCount++ runs in the final step only
                                !.successCount = IF isComplete THEN @ + out.sent ELSE @,
                                \* setTimeout(sendNextChunk, 100), else the completion log
                                !.pending = ~isComplete,
                                !.done = isComplete],
              s  |-> out.s]
    ELSE [st |-> [st EXCEPT !.pending = FALSE], s |-> s]

\* The closures in progress after a call of sendNextChunk that left st: a
\* closure without a pending timer is dead.
Running(sts) == SelectSeq(sts, LAMBDA st : st.pending)
\* logMessageSent("streaming complete", successCount) of the final step.
Completed(st) == IF st.done THEN <<st.successCount>> ELSE <<>>

\* streamMessage without the early return on an empty registry.
streamMessage_noEarlyReturn(bodyMessage, faker) ==
    LET clientMessage == IF Truthy(bodyMessage) THEN bodyMessage ELSE DefaultMessage
        message       == generateResponseFromClientMessage(clientMessage, faker)
        st0 == [chunks |-> split(message), chunkIndex |-> 0, accumulatedMessage |-> <<>>,
                successCount |-> 0, timestamp |-> toISOString(now),
                pending |-> FALSE, done |-> FALSE]
        out == sendNextChunk(st0, Store, clients)
    IN  /\ Len(streams) < MaxStreams
        /\ eventId' = out.s.eventId
        /\ eventCache' = out.s.eventCache
        /\ sink' = out.s.sink
        /\ streams' = Running(Append(streams, out.st))
        /\ completed' = Completed(out.st)
        /\ response' = [op |-> "streamMessage", status |-> 200,
                        recipients |-> Len(clients)]
        /\ UNCHANGED <<clients, now, request, browser, sinkState, clientIdOf, timer, closeHandler>>

streamMessage(bodyMessage, faker) ==
    LET clientMessage == IF Truthy(bodyMessage) THEN bodyMessage ELSE DefaultMessage
        message       == generateResponseFromClientMessage(clientMessage, faker)
        st0 == [chunks |-> split(message), chunkIndex |-> 0, accumulatedMessage |-> <<>>,
                successCount |-> 0, timestamp |-> toISOString(now),
                pending |-> FALSE, done |-> FALSE]
        out == sendNextChunk(st0, Store, clients)
    IN  /\ IF Len(clients) = 0
           THEN /\ response' = [op |-> "streamMessage", status |-> 200, recipients |-> 0]
                /\ completed' = <<>>
                /\ UNCHANGED <<eventId, eventCache, sink, streams>>
           ELSE /\ Len(streams) < MaxStreams
                /\ eventId' = out.s.eventId
                /\ eventCache' = out.s.eventCache
                /\ sink' = out.s.sink
                /\ streams' = Running(Append(streams, out.st))
                /\ completed' = Completed(out.st)
                /\ response' = [op |-> "streamMessage", status |-> 200,
                                recipients |-> Len(clients)]
        /\ UNCHANGED <<clients, now, request, browser, sinkState, clientIdOf, timer, closeHandler>>

\* Mutant: the steps after the first go to the streams that got an earlier
\* step, not to the registry as it stands.
ChunkTimer_earlierRecipients(k) ==
    /\ streams[k].pending
    /\ LET out == sendNextChunk(streams[k], Store,
                                SelectSeq(clients, LAMBDA c :
                                   \E i \in 1..Len(sink[c.res]) :
                                      sink[c.res][i].type = "partial-message"))
       IN  /\ streams' = Running([streams EXCEPT ![k] = out.st])
           /\ completed' = Completed(out.st)
           /\ eventId' = out.s.eventId
           /\ eventCache' = out.s.eventCache
           /\ sink' = out.s.sink
    /\ response' = NoResponse
    /\ UNCHANGED <<clients, now, request, browser, sinkState, clientIdOf, timer, closeHandler>>

\* Mutant: the chunk timer gives up when the registry is empty.
ChunkTimer_stopsWhenEmpty(k) ==
    /\ streams[k].pending
    /\ LET out == IF Len(clients) = 0
                  THEN [st |-> [streams[k] EXCEPT !.pending = FALSE], s |-> Store]
                  ELSE sendNextChunk(streams[k], Store, clients)
       IN  /\ streams' = Running([streams EXCEPT ![k] = out.st])
           /\ completed' = Completed(out.st)
           /\ eventId' = out.s.eventId
           /\ eventCache' = out.s.eventCache
           /\ sink' = out.s.sink
    /\ response' = NoResponse
    /\ UNCHANGED <<clients, now, request, browser, sinkState, clientIdOf, timer, closeHandler>>

\* The timer set by setTimeout(sendNextChunk, 100) of chunked broadcast k fires.
ChunkTimer(k) ==
    /\ streams[k].pending
    /\ LET out == sendNextChunk(streams[k], Store, clients)
       IN  /\ streams' = Running([streams EXCEPT ![k] = out.st])
           /\ completed' = Completed(out.st)
           /\ eventId' = out.s.eventId
           /\ eventCache' = out.s.eventCache
           /\ sink' = out.s.sink
    /\ response' = NoResponse
    /\ UNCHANGED <<clients, now, request, browser, sinkState, clientIdOf, timer, closeHandler>>

----------------------------------------------------------------------------
(***************************************************************************)
(* routes/messages.ts                                                      *)
(***************************************************************************)
\* router.post("/send-message", express.json(), sendMessage)
PostSendMessage ==
    /\ eventId < MaxEventId
    /\ \E bodyMessage \in BodyMessages, faker \in Texts : sendMessage(bodyMessage, faker)

\* router.post("/stream-message", express.json(), streamMessage)
PostStreamMessage ==
    /\ eventId < MaxEventId
    /\ \E bodyMessage \in BodyMessages, faker \in Texts : streamMessage(bodyMessage, faker)

----------------------------------------------------------------------------
(***************************************************************************)
(* Environment.                                                            *)
(***************************************************************************)
\* The millisecond clock advances.
Tick ==
    /\ now < MaxClock
    /\ now' = now + 1
    /\ Silent
    /\ UNCHANGED <<request, browser, clients, eventCache, eventId, sink, sinkState,
                   clientIdOf, timer, closeHandler, streams>>

\* The peer of a registered stream vanishes: from now on res.write throws;
\* the "close" event has not been delivered yet.
SinkFails(res) ==
    /\ Registered(res)
    /\ sinkState[res] = "open"
    /\ sinkState' = [sinkState EXCEPT ![res] = "broken"]
    /\ Silent
    /\ UNCHANGED <<clients, eventCache, eventId, now, request, browser, sink,
                   clientIdOf, timer, closeHandler, streams>>

----------------------------------------------------------------------------
(***************************************************************************)
(* frontend/src/app/lib/api.ts: connectToEvents.  The functions of the     *)
(* closure thread a record c of its variables, the EventSource objects and *)
(* the timers through their calls.                                         *)
(***************************************************************************)
MAX_RECONNECT_ATTEMPTS == 5
MAX_WAIT_MS == 30000

\* EventSource objects and timers one connectToEvents call may create.
MaxSources == 7

Closure == [sseConnection |-> sseConnection, sources |-> sources,
            reconnectAttempts |-> reconnectAttempts, reconnectTimer |-> reconnectTimer,
            timers |-> timers, reported |-> reported]

Min(a, b) == IF a < b THEN a ELSE b

\* handlers.onConnectionStateChange(newState)
notifyConnectionStateChange(c, newState) == [c EXCEPT !.reported = newState]

\* if (x) { x.close(); }: close() on a closed EventSource changes nothing.
CloseSource(c) ==
    IF c.sseConnection # 0
    THEN [c EXCEPT !.sources[c.sseConnection] = "closed"]
    ELSE c

\* if (reconnectTimer) clearTimeout(reconnectTimer): clearing a timer that
\* has fired changes nothing.
ClearTimer(c) ==
    IF c.reconnectTimer # 0 /\ c.timers[c.reconnectTimer].state = "armed"
    THEN [c EXCEPT !.timers[c.reconnectTimer].state = "cleared"]
    ELSE c

scheduleReconnect(c) ==
    LET waitTimeMs == Min(1000 * 2 ^ c.reconnectAttempts, MAX_WAIT_MS)
        c1 == [c EXCEPT !.reconnectAttempts = @ + 1]
        c2 == ClearTimer(c1)
    IN  [c2 EXCEPT !.timers = Append(@, [state |-> "armed", waitTimeMs |-> waitTimeMs]),
                   !.reconnectTimer = Len(c2.timers) + 1]

\* Mutant: a reconnect is scheduled whatever the number of attempts.
handleConnectionClosed_noLimit(c) ==
    LET c1 == [CloseSource(c) EXCEPT !.sseConnection = 0]
        c2 == notifyConnectionStateChange(c1, "disconnected")
    IN  scheduleReconnect(c2)

handleConnectionClosed(c) ==
    LET c1 == [CloseSource(c) EXCEPT !.sseConnection = 0]
        c2 == notifyConnectionStateChange(c1, "disconnected")
    IN  IF c2.reconnectAttempts < MAX_RECONNECT_ATTEMPTS
        THEN scheduleReconnect(c2)
        ELSE c2

startConnection(c) ==
    LET c1 == CloseSource(c)
        c2 == notifyConnectionStateChange(
                  c1, IF c1.reconnectAttempts > 0 THEN "reconnecting" ELSE "connecting")
    IN  [c2 EXCEPT !.sources = Append(@, "connecting"),
                   !.sseConnection = Len(c2.sources) + 1]

\* Mutant: close() leaves the reconnect timer running.
closeConnection_keepsTimer(c) ==
    LET c2 == [CloseSource(c) EXCEPT !.sseConnection = 0]
    IN  notifyConnectionStateChange(c2, "disconnected")

closeConnection(c) ==
    LET c1 == [ClearTimer(c) EXCEPT !.reconnectTimer = 0]
        c2 == [CloseSource(c1) EXCEPT !.sseConnection = 0]
    IN  notifyConnectionStateChange(c2, "disconnected")

\* The server side and the page are left alone by the closure.
server == <<clients, eventCache, eventId, now, sink, sinkState,
            clientIdOf, timer, closeHandler, streams, completed, response, request>>

Becomes(c) ==
    /\ sseConnection' = c.sseConnection
    /\ sources' = c.sources
    /\ reconnectAttempts' = c.reconnectAttempts
    /\ reconnectTimer' = c.reconnectTimer
    /\ timers' = c.timers
    /\ reported' = c.reported
    /\ UNCHANGED <<server, pageEvents, received>>

\* The browser has connected the EventSource: readyState OPEN, then
\* source.onopen.
SourceOpens(source) ==
    /\ sources[source] = "connecting"
    /\ Becomes(notifyConnectionStateChange(
                   [Closure EXCEPT !.sources[source] = "open", !.reconnectAttempts = 0],
                   "connected"))

\* The transport of an open EventSource drops: the browser sets readyState
\* CONNECTING, fires error and reconnects by itself; source.onerror finds the
\* readyState not CLOSED.
SourceDrops(source) ==
    /\ sources[source] = "open"
    /\ Becomes([Closure EXCEPT !.sources[source] = "connecting"])

\* The browser gives the connection up (a response that is not a 200 event
\* stream): readyState CLOSED, then source.onerror, which calls
\* handleConnectionClosed.
SourceFails(source) ==
    /\ sources[source] = "connecting"
    /\ Becomes(handleConnectionClosed([Closure EXCEPT !.sources[source] = "closed"]))

\* The callback of setTimeout in scheduleReconnect.
ReconnectTimerFires(t) ==
    /\ timers[t].state = "armed"
    /\ Len(sources) < MaxSources
    /\ Becomes(startConnection([Closure EXCEPT !.timers[t].state = "fired"]))

\* close() of the handle connectToEvents returned.
CloseHandle ==
    /\ Len(sources) > 0
    /\ Becomes(closeConnection(Closure))

Opens == \E source \in 1..Len(sources) : SourceOpens(source)
Drops == \E source \in 1..Len(sources) : SourceDrops(source)
Fails == \E source \in 1..Len(sources) : SourceFails(source)
Reconnects == \E t \in 1..Len(timers) : ReconnectTimerFires(t)

----------------------------------------------------------------------------
(***************************************************************************)
(* The EventListener component: the handlers it passes to connectToEvents. *)
(***************************************************************************)
\* The stream the page listens to.
PageRes == 1

Last(list) == list[Len(list)]
ReplaceLast(list, e) == [list EXCEPT ![Len(list)] = e]

onMessage(prevEvents, data) ==
    Append(prevEvents, [time |-> data.time, message |-> data.message,
                        eventType |-> "message"])

onPartialMessage(prevEvents, data) ==
    LET entry == [time |-> data.time, message |-> data.message,
                  isComplete |-> data.isComplete, progress |-> data.progress,
                  eventType |-> IF data.isComplete THEN "message" ELSE "partial-message"]
    IN  IF Len(prevEvents) > 0 /\ Last(prevEvents).eventType = "partial-message"
        THEN ReplaceLast(prevEvents, entry)
        ELSE Append(prevEvents, entry)

onSystem(prevEvents, data) ==
    Append(prevEvents, [message |-> data.message, type |-> data.type,
                        eventType |-> "system"])

\* The open EventSource hands the next frame of the stream to its listener;
\* the retry directive is consumed by the EventSource itself.
Deliver ==
    /\ sseConnection # 0
    /\ sources[sseConnection] = "open"
    /\ received < Len(sink[PageRes])
    /\ received' = received + 1
    /\ LET frame == sink[PageRes][received + 1]
       IN  pageEvents' = CASE frame.type = "message" -> onMessage(pageEvents, frame.data)
                           [] frame.type = "partial-message" -> onPartialMessage(pageEvents, frame.data)
                           [] frame.type = "system" -> onSystem(pageEvents, frame.data)
                           [] OTHER -> pageEvents
    /\ UNCHANGED <<server, sseConnection, sources, reconnectAttempts, reconnectTimer,
                   timers, reported>>

----------------------------------------------------------------------------
Init ==
    /\ clients = <<>>
    /\ eventCache = <<>>
    /\ eventId = 0
    /\ now = 1
    /\ sink = [r \in Res |-> <<>>]
    /\ sinkState = [r \in Res |-> "none"]
    /\ clientIdOf = [r \in Res |-> 0]
    /\ timer = [r \in Res |-> "none"]
    /\ closeHandler = [r \in Res |-> "none"]
    /\ streams = <<>>
    /\ completed = <<>>
    /\ response = NoResponse
    /\ request = NoRequest
    \* connectToEvents has run startConnection and returned its handle
    /\ sseConnection = 1
    /\ sources = <<"connecting">>
    /\ reconnectAttempts = 0
    /\ reconnectTimer = 0
    /\ timers = <<>>
    /\ reported = "connecting"
    /\ pageEvents = <<>>
    /\ received = 0

Timeout == \E res \in Res : IdleTimeout(res)
Close == \E res \in Res : RequestClose(res)
Failure == \E res \in Res : SinkFails(res)
Chunk == \E k \in 1..Len(streams) : ChunkTimer(k)

Next ==
    \/ GetEvents
    \/ GetSecureEvents
    \/ PostSendMessage
    \/ PostStreamMessage
    \/ Chunk
    \/ Timeout
    \/ Close
    \/ Failure
    \/ Tick

Spec == Init /\ [][Next]_vars

----------------------------------------------------------------------------
(***************************************************************************)
(* The server under requests drawn from wider sets: every combination of   *)
(* the three token carriers, and generated texts of up to MaxWords words.  *)
(***************************************************************************)
\* Words of the longest text faker produces.
MaxWords == 50

\* The text of n one-letter words separated by single spaces.
WordsText(n) == [i \in 1..(2 * n - 1) |-> IF i % 2 = 1 THEN "w" ELSE " "]
LongTexts == {WordsText(n) : n \in 1..MaxWords}

\* The first connection of a client: no Last-Event-ID header.
GetSecureEventsFresh == \E req \in AuthRequests : SecureEvents(req, Undefined)

PostLongStreamMessage ==
    /\ eventId < MaxEventId
    /\ \E bodyMessage \in BodyMessages, faker \in LongTexts : streamMessage(bodyMessage, faker)

NextWide ==
    \/ GetSecureEventsFresh
    \/ PostLongStreamMessage
    \/ Chunk

SpecWide == Init /\ [][NextWide]_vars

\* Connections that come and go while texts of a few words are broadcast
\* chunk by chunk, with timers that fire: Node runs the callback of an
\* expired timer as soon as the running handler has returned.
MaxSteps == 4
ShortTexts == {WordsText(n) : n \in 1..MaxSteps}
GetEventsFresh == connectSSE(Undefined)
PostShortStreamMessage ==
    /\ eventId < MaxEventId
    /\ \E bodyMessage \in BodyMessages, faker \in ShortTexts : streamMessage(bodyMessage, faker)

NextLive ==
    \/ GetEventsFresh
    \/ PostShortStreamMessage
    \/ Chunk
    \/ Close

\* Weak fairness of the chunk timer, WF_vars(Chunk), with its ENABLED
\* written out: ChunkTimer(k) has no guard but streams[k].pending, every
\* closure in streams is pending, and the step changes the closure, so
\* ENABLED <<Chunk>>_vars is Len(streams) > 0.
ChunkFairness == []<>(Len(streams) = 0) \/ []<><<Chunk>>_vars

SpecLive == Init /\ [][NextLive]_vars /\ ChunkFairness

\* Texts with spaces in any place: consecutive, leading and trailing.
MaxChars == 3
SpaceTexts == UNION {[1..n -> {"a", " "}] : n \in 0..MaxChars}

PostSpacedStreamMessage ==
    /\ eventId < MaxEventId
    /\ \E bodyMessage \in BodyMessages, faker \in SpaceTexts : streamMessage(bodyMessage, faker)

NextText ==
    \/ GetEventsFresh
    \/ PostSpacedStreamMessage
    \/ Chunk

SpecText == Init /\ [][NextText]_vars

\* One connectToEvents handle in a browser whose connections open, drop and
\* fail in any order.
NextClient ==
    \/ Opens
    \/ Drops
    \/ Fails
    \/ Reconnects
    \/ CloseHandle

SpecClient == Init /\ [][NextClient]_vars

\* The page listening to the first stream while messages are broadcast at
\* once and chunk by chunk.
NextPage ==
    \/ Opens
    \/ GetEventsFresh
    \/ PostSendMessage
    \/ PostShortStreamMessage
    \/ Chunk
    \/ Deliver

SpecPage == Init /\ [][NextPage]_vars

----------------------------------------------------------------------------
(***************************************************************************)
(* The authenticated route alone, for every combination of carriers.      *)
(***************************************************************************)
\* A GET /secure-events request arrives with some combination of carriers.
Arrive ==
    /\ request' \in AuthCarriers
    /\ Silent
    /\ UNCHANGED <<browser, clients, eventCache, eventId, now, sink, sinkState,
                   clientIdOf, timer, closeHandler, streams>>

\* Express runs the route for the request that arrived.
HandleSecure ==
    /\ request # NoRequest
    /\ SecureEvents(request, Undefined)

NextAuth ==
    \/ Arrive
    \/ HandleSecure

SpecAuth == Init /\ [][NextAuth]_vars

----------------------------------------------------------------------------
(***************************************************************************)
(* Vocabulary of the properties.                                           *)
(***************************************************************************)
Ids(events) == {events[i].id : i \in 1..Len(events)}
Payloads(events) ==
    [i \in 1..Len(events) |-> [type |-> events[i].type, data |-> events[i].data]]

Ascending(events) ==
    \A i, j \in 1..Len(events) : i < j => events[i].id < events[j].id

\* The response objects in the registry, and those whose stream accepts writes.
RegisteredRes == {clients[i].res : i \in 1..Len(clients)}
Healthy == {r \in RegisteredRes : sinkState[r] = "open"}

\* The frames a step appends to the stream of res.
Written(res) == SubSeq(sink'[res], Len(sink[res]) + 1, Len(sink'[res]))

\* The cache entries a step adds.
Pushed == SelectSeq(eventCache', LAMBDA e : e.id > eventId)

\* A step that emits one logical event to the registry: an atomic broadcast,
\* or one chunk step (the first runs inside the request handler).
EmitsToAll == PostSendMessage \/ PostStreamMessage \/ Chunk

\* A step in which an admission controller runs with header lastEventId.
Admission(lastEventId) ==
    \/ connectSSE(lastEventId)
    \/ \E req \in AuthRequests :
          /\ authMiddleware(req).status # 401
          /\ connectSecureSSE(authMiddleware(req).user, lastEventId)
Admitted(lastEventId) == Admission(lastEventId) /\ Len(clients) < MAX_CLIENTS
RejectedForCapacity == (\E h \in LastEventIds : Admission(h)) /\ Len(clients) >= MAX_CLIENTS

\* The frames an admission replays on the stream it opens: those between
\* the retry directive and the welcome event.
Replayed == SubSeq(sink'[NewRes], 2, Len(sink'[NewRes]) - 1)

----------------------------------------------------------------------------
\* C1: one logical event (an atomic broadcast or one chunk step) sent to N >= 1
\* registered connections advances eventId by exactly 1, and every connection
\* that receives it sees that one id.
C1_OneSequenceIdPerEvent ==
    [][EmitsToAll /\ Len(clients) >= 1
         => /\ eventId' = eventId + 1
            /\ \A r \in Healthy : Ids(Written(r)) = {eventId + 1}]_vars

\* C2: one logical event sent to N >= 1 registered connections adds exactly
\* one entry to the event cache.
C2_OneHistoryEntryPerEvent ==
    [][EmitsToAll /\ Len(clients) >= 1 /\ Healthy = RegisteredRes
         => Len(Pushed) = 1]_vars

\* C3: an admission that replays cached events writes them with their original
\* ids and leaves the counter and the cache as they were; the welcome event
\* that follows is the only event the admission emits.
C3_ReplayKeepsIdsAndState ==
    [][\A h \in LastEventIds :
          Admitted(h) =>
             LET missed == SelectSeq(eventCache,
                                     LAMBDA e : Truthy(h) /\ GreaterThan(e.id, parseInt(h)))
             IN  /\ [i \in 1..Len(Replayed) |-> Replayed[i].id]
                      = [i \in 1..Len(missed) |-> missed[i].id]
                 /\ eventId' = eventId + 1
                 /\ Len(Pushed) = 1]_vars

\* C4: an admission with Last-Event-ID k replays exactly the cache entries (as
\* the cache stood when the admission began) with id > k, in the order of the
\* cache, which is ascending in id; an admission with no Last-Event-ID, an
\* empty one or one that is not a number replays nothing.
C4_ReplaySelection ==
    [][\A h \in LastEventIds :
          Admitted(h) =>
             LET expected == IF ~Truthy(h) \/ parseInt(h).nan THEN <<>>
                             ELSE SelectSeq(eventCache, LAMBDA e : e.id > parseInt(h).val)
             IN  /\ Payloads(Replayed) = Payloads(expected)
                 /\ Ascending(expected)
                 /\ Ascending(Replayed)]_vars

\* A stream has just been admitted with one frame replayed, while another
\* registered stream has received the events 1 and 2: the replay left out
\* event 1.
C4_Witness ==
    /\ response.status = 200
    /\ Len(clients) = 2
    /\ Len(sink[clients[2].res]) = 3
    /\ {1, 2} \subseteq Ids(sink[clients[1].res])

\* C5: the event cache never holds more than MAX_CACHE_SIZE entries; a step
\* evicts only as many entries as the bound forces, the evicted entries are
\* those with the smallest ids, and an id that has left the cache never
\* returns to it, so no later replay can select it.
C5_HistoryBound ==
    /\ [](Len(eventCache) <= MAX_CACHE_SIZE /\ \A id \in Ids(eventCache) : id <= eventId)
    /\ [][LET kept    == Ids(eventCache) \cap Ids(eventCache')
              evicted == Ids(eventCache) \ Ids(eventCache')
          IN  /\ \A e \in evicted, k \in Ids(eventCache') : e < k
              /\ evicted # {} => Len(eventCache') = MAX_CACHE_SIZE
              /\ \A id \in Ids(eventCache') \ kept : id > eventId]_vars

\* The cache is full and its oldest entries have been evicted.
C5_Witness ==
    /\ Len(eventCache) = MAX_CACHE_SIZE
    /\ eventCache[1].id > 1

\* C6: the registry never holds more than MAX_CLIENTS entries; an admission
\* controller that runs while it holds MAX_CLIENTS answers 503 and leaves it
\* as it is; one that runs while it holds fewer answers 200 and adds one
\* entry; and a teardown that removes an entry from the full registry leaves
\* it below the bound, so that the next admission is of the second kind.
C6_AdmissionCap ==
    /\ [](Len(clients) <= MAX_CLIENTS)
    /\ [][(\E h \in LastEventIds : Admission(h)) =>
             IF Len(clients) = MAX_CLIENTS
             THEN response'.status = 503 /\ clients' = clients
             ELSE response'.status = 200 /\ Len(clients') = Len(clients) + 1]_vars
    /\ [][\A r \in Res :
             (IdleTimeout(r) \/ RequestClose(r)) /\ r \in RegisteredRes
                => Len(clients') = Len(clients) - 1]_vars

\* The anonymous controller has just refused a stream at a full registry.
C6_Witness ==
    /\ response = [op |-> "connectSSE", status |-> 503, recipients |-> 0]
    /\ Len(clients) = MAX_CLIENTS

\* C7: an admission refused for capacity changes nothing but the response:
\* registry, cache and counter are as before, nothing is written to any
\* stream, no stream is opened, no watchdog and no close handler is set.
C7_RejectionMutatesNothing ==
    [][RejectedForCapacity =>
          /\ response'.status = 503
          /\ UNCHANGED <<clients, eventCache, eventId, sink, sinkState,
                         clientIdOf, timer, closeHandler, streams>>]_vars

\* The authenticated controller has just refused a stream while the
\* registered streams are open.
C7_Witness ==
    /\ response = [op |-> "connectSecureSSE", status |-> 503, recipients |-> 0]
    /\ Healthy = RegisteredRes

\* C8: an atomic broadcast of text m while every registered stream accepts
\* writes reports as many recipients as the registry has entries, and writes
\* to each registered stream exactly one frame, a message event carrying m.
C8_AtomicBroadcastComplete ==
    [][\A b \in BodyMessages, t \in Texts :
          sendMessage(b, t) /\ Healthy = RegisteredRes =>
             LET m == generateResponseFromClientMessage(
                          IF Truthy(b) THEN b ELSE DefaultMessage, t)
             IN
             /\ response'.status = 200
             /\ response'.recipients = Len(clients)
             /\ Cardinality(RegisteredRes) = Len(clients)
             /\ \A r \in RegisteredRes :
                   /\ Len(Written(r)) = 1
                   /\ Written(r)[1].type = "message"
                   /\ Written(r)[1].data.message = m]_vars

\* An atomic broadcast has just reached two streams.
C8_Witness ==
    /\ response = [op |-> "sendMessage", status |-> 200, recipients |-> 2]
    /\ \A r \in RegisteredRes : sink[r][Len(sink[r])].type = "message"

\* C9: in an atomic broadcast and in every chunk step, each registered stream
\* that accepts writes gets exactly one frame and each one that does not gets
\* none, whatever their order in the registry; the broadcast answers 200 with
\* the number of streams written, and the final chunk step logs that number.
C9_WriteFailureIsLocal ==
    [][EmitsToAll =>
          /\ \A r \in RegisteredRes :
                Len(Written(r)) = IF sinkState[r] = "open" THEN 1 ELSE 0
          /\ response'.op = "sendMessage" =>
                response' = [op |-> "sendMessage", status |-> 200,
                             recipients |-> Cardinality(Healthy)]
          /\ response'.op = "streamMessage" => response'.status = 200
          /\ completed' # <<>> => completed' = <<Cardinality(Healthy)>>]_vars

\* An atomic broadcast has just been delivered to the second of two
\* registered streams after the write to the first one failed.
C9_Witness ==
    /\ response = [op |-> "sendMessage", status |-> 200, recipients |-> 1]
    /\ Len(clients) = 2
    /\ sinkState[clients[1].res] = "broken"
    /\ sink[clients[2].res][Len(sink[clients[2].res])].type = "message"

\* C10: the idle timeout and the close of one connection remove that
\* connection's registry entry and no other, and a teardown of a connection
\* that is no longer registered changes nothing.
C10_TeardownRemovesOnlyItself ==
    [][\A r \in Res :
          (IdleTimeout(r) \/ RequestClose(r)) =>
             /\ RegisteredRes \ {clients'[i].res : i \in 1..Len(clients')} \subseteq {r}
             /\ (r \notin RegisteredRes => clients' = clients)]_vars

----------------------------------------------------------------------------
\* One call of sendNextChunk by a closure that had sent chunkIndex of its
\* chunks: the call is the (chunkIndex + 1)-th of at most Len(chunks); every
\* registered stream that accepts writes gets one partial-message frame whose
\* text splits into the first chunkIndex + 1 chunks, whose progress is
\* Percent(chunkIndex + 1, Len(chunks)) and whose isComplete flag is set on
\* the last one only; the closure is scheduled again unless this was the last.
FramedCall(chunks, chunkIndex, Percent(_, _)) ==
    LET k == chunkIndex + 1
        n == Len(chunks)
    IN  /\ k <= n
        /\ \A r \in Healthy :
              /\ Len(Written(r)) = 1
              /\ Written(r)[1].type = "partial-message"
              /\ split(Written(r)[1].data.message) = SubSeq(chunks, 1, k)
              /\ Written(r)[1].data.progress = Percent(k, n)
              /\ Written(r)[1].data.isComplete = (k = n)
        /\ (k < n) = (\E j \in 1..Len(streams') :
                         streams'[j].chunks = chunks /\ streams'[j].chunkIndex = k)

\* Every call of sendNextChunk in a step is a FramedCall: the first call of
\* a chunked broadcast, made by the request handler on a non-empty registry,
\* and the calls made by the chunk timer.
FramedSteps(Percent(_, _)) ==
    /\ response'.op = "streamMessage" /\ Len(clients) > 0 =>
          \A b \in BodyMessages, t \in Texts \cup LongTexts :
             streamMessage(b, t) =>
                FramedCall(split(generateResponseFromClientMessage(
                                    IF Truthy(b) THEN b ELSE DefaultMessage, t)),
                           0, Percent)
    /\ response' = NoResponse /\ eventId' # eventId =>
          \A i \in 1..Len(streams) :
             ChunkTimer(i) => FramedCall(streams[i].chunks, streams[i].chunkIndex, Percent)

\* C11: a chunked broadcast of a text of n words on a non-empty registry
\* makes n calls of sendNextChunk; the k-th writes to every registered stream
\* that accepts writes one partial-message frame with the first k words joined
\* by single spaces, progress = the integer part of 100 * k / n, and
\* isComplete true for k = n only.
C11_ChunkedFraming ==
    [][FramedSteps(LAMBDA k, n : (100 * k) \div n)]_vars

----------------------------------------------------------------------------
\* C12: a chunked broadcast requested while the registry is empty answers
\* with 0 recipients in the same step, writes to no stream, schedules no
\* chunk timer and leaves the event cache and the event id counter unchanged.
C12_EmptyRegistryChunked ==
    [][response'.op = "streamMessage" /\ Len(clients) = 0
           => /\ response' = [op |-> "streamMessage", status |-> 200, recipients |-> 0]
              /\ sink' = sink
              /\ streams' = streams
              /\ completed' = <<>>
              /\ eventCache' = eventCache
              /\ eventId' = eventId]_vars

\* A chunked broadcast has just been answered on an empty registry, after
\* earlier connections had advanced the counter and filled the cache.
C12_Witness ==
    /\ response = [op |-> "streamMessage", status |-> 200, recipients |-> 0]
    /\ Len(clients) = 0
    /\ eventId > 0
    /\ Len(eventCache) > 0

----------------------------------------------------------------------------
\* C13: the ids of the registry are unique: no two entries held by the
\* registry at the same time carry the same id, also when several streams
\* are admitted within the same millisecond.
C13_RegistryKeysUnique ==
    \A i, j \in 1..Len(clients) : i # j => clients[i].id # clients[j].id

----------------------------------------------------------------------------
\* C14: in every reachable state the registry holds exactly the admitted
\* streams that are still open: the stream of every registry entry has been
\* neither ended by its idle timeout nor closed, and every admitted stream
\* that has been neither ended nor closed has a registry entry.  A stream
\* whose peer vanished counts as open until its "close" event is handled.
C14_RegistryMirrorsOpenStreams ==
    /\ \A r \in RegisteredRes : sinkState[r] \in {"open", "broken"}
    /\ \A r \in Res : sinkState[r] \in {"open", "broken"} => Registered(r)

----------------------------------------------------------------------------
\* The tokens a /secure-events request carries, in any carrier.
Carried(req) ==
    ((IF req.authorization.scheme = "Bearer" THEN {req.authorization.rest} ELSE {})
        \cup {req.tokenQuery, req.tokenCookie}) \ {NoToken}
NoValidToken(req) == \A t \in Carried(req) : verify(t).threw
\* A step in which GET /secure-events is handled for request req.
SecureStep(req) == \E h \in LastEventIds : SecureEvents(req, h)
\* Nothing is allocated: no registry entry, no cache entry, no event id, no
\* stream, no timer and no close handler.
NothingAllocated ==
    UNCHANGED <<clients, eventCache, eventId, sink, sinkState,
                clientIdOf, timer, closeHandler, streams>>

\* C15: on /secure-events a request whose token is missing or invalid is
\* answered with 401 and nothing is allocated: the registry, the event
\* cache and the event id counter are unchanged and no stream is opened.
C15_UnauthorizedAllocatesNothing ==
    [][\A req \in AuthRequests :
          NoValidToken(req) /\ SecureStep(req)
              => /\ response' = [op |-> "authMiddleware", status |-> 401, recipients |-> 0]
                 /\ NothingAllocated]_vars

\* A request has just been answered with 401 while the registry had room
\* and the server had streams, cache entries and ids to protect.
C15_Witness ==
    /\ response = [op |-> "authMiddleware", status |-> 401, recipients |-> 0]
    /\ Len(clients) > 0
    /\ Len(clients) < MAX_CLIENTS
    /\ Len(eventCache) > 0

----------------------------------------------------------------------------
\* C16 as stated: on /secure-events the capacity check runs before the
\* authentication check: a request that arrives while the registry is full
\* is answered with 503 whether or not it carries a valid token.
C16_CapacityBeforeAuth ==
    [][\A req \in AuthRequests :
          Len(clients) >= MAX_CLIENTS /\ SecureStep(req) => response'.status = 503]_vars

\* C16: on /secure-events the authentication check runs before the capacity
\* check: a request that arrives while the registry is full is answered
\* with 401 when it carries no valid token, and with 503 only when the
\* middleware accepts its token; neither answer allocates anything.
C16_AuthBeforeCapacity ==
    [][\A req \in AuthRequests :
          Len(clients) >= MAX_CLIENTS /\ SecureStep(req)
              => /\ response'.status = IF NoValidToken(req) THEN 401 ELSE 503
                 /\ response'.op = IF NoValidToken(req) THEN "authMiddleware"
                                                       ELSE "connectSecureSSE"
                 /\ NothingAllocated]_vars

\* A request without a valid token has just been answered with 401 while
\* the registry was full.
C16_Witness ==
    /\ response = [op |-> "authMiddleware", status |-> 401, recipients |-> 0]
    /\ Len(clients) >= MAX_CLIENTS

----------------------------------------------------------------------------
\* The carriers a request presents, in the order of precedence: the
\* Authorization header when it starts with "Bearer ", the token query
\* parameter, the auth_token cookie.  The token is that of the first one.
Presented(req) ==
    (IF req.authorization.scheme = "Bearer" THEN <<req.authorization.rest>> ELSE <<>>)
        \o (IF req.tokenQuery # NoToken THEN <<req.tokenQuery>> ELSE <<>>)
        \o (IF req.tokenCookie # NoToken THEN <<req.tokenCookie>> ELSE <<>>)
FirstToken(req) == IF Presented(req) = <<>> THEN NoToken ELSE Presented(req)[1]

\* C17: the middleware takes the token from the first carrier present in
\* the order Authorization Bearer header, query parameter, cookie, and
\* verifies that token only: when it is missing or invalid the request is
\* answered with 401 and nothing is allocated, whatever the later carriers
\* hold; when it is valid the request reaches the controller as the user
\* of that token.
C17_FirstCarrierWins ==
    [][HandleSecure =>
          LET token == FirstToken(request)
          IN  IF token = NoToken \/ verify(token).threw
              THEN /\ response' = [op |-> "authMiddleware", status |-> 401, recipients |-> 0]
                   /\ NothingAllocated
              ELSE /\ response'.op = "connectSecureSSE"
                   /\ (response'.status = 200 =>
                          /\ Len(clients') = Len(clients) + 1
                          /\ clients'[Len(clients')].user = verify(token).decoded)]_vars

\* A request with an invalid token in the Bearer header and a valid one in
\* the cookie has just been answered with 401 while the registry had room.
C17_Witness ==
    /\ request.authorization = [scheme |-> "Bearer", rest |-> "bad"]
    /\ request.tokenCookie = "good"
    /\ response = [op |-> "authMiddleware", status |-> 401, recipients |-> 0]
    /\ Len(clients) < MAX_CLIENTS

----------------------------------------------------------------------------
\* The system events written to the stream of res.
SystemFrames(res) == SelectSeq(sink[res], LAMBDA f : f.type = "system")

\* C18: the system welcome event of an admission is delivered to the
\* admitted stream only: no stream ever holds a system event other than
\* its own welcome, neither from a broadcast nor from a replay.
C18_WelcomeStaysPrivate ==
    \A r \in Res : Len(SystemFrames(r)) <= 1

----------------------------------------------------------------------------
\* The request bodies without a message: the field is absent, or empty.
NoMessage == {Undefined, <<>>}

\* C19: a broadcast request whose body has no message, or an empty one, is
\* served as a request whose message is the default placeholder: the text
\* generated for the placeholder is broadcast, at once or chunk by chunk,
\* and the response is 200 with the number of recipients.
C19_DefaultMessage ==
    [][\A b \in NoMessage, t \in Texts :
          LET m == generateResponseFromClientMessage(DefaultMessage, t)
          IN  /\ response'.op = "sendMessage" /\ sendMessage(b, t)
                    => /\ response'.status = 200
                       /\ response'.recipients = Cardinality(Healthy)
                       /\ \A r \in Healthy :
                             /\ Len(Written(r)) = 1
                             /\ Written(r)[1].type = "message"
                             /\ Written(r)[1].data.message = m
              /\ response'.op = "streamMessage" /\ streamMessage(b, t)
                    => /\ response'.status = 200
                       /\ response'.recipients = Len(clients)
                       /\ \A r \in Healthy :
                             /\ Len(Written(r)) = 1
                             /\ Written(r)[1].type = "partial-message"
                             /\ Written(r)[1].data.message = split(m)[1]
                       /\ (Len(clients) > 0 /\ Len(split(m)) > 1
                              => streams'[Len(streams')].chunks = split(m))]_vars

\* A request without a message has just been answered with 200 and the
\* text generated for the placeholder has reached every registered stream.
C19_Witness ==
    /\ response.op = "sendMessage"
    /\ response.status = 200
    /\ response.recipients = 2
    /\ \A r \in RegisteredRes :
          /\ sink[r][Len(sink[r])].type = "message"
          /\ SubSeq(sink[r][Len(sink[r])].data.message, 1, 3)
                = <<"[">> \o DefaultMessage \o <<"]">>

----------------------------------------------------------------------------
\* C20: every id the counter hands out is pushed to the event cache when
\* it is handed out, also when the write to the stream fails: the newest
\* cache entry carries the current value of the counter, and the ids in the
\* cache are consecutive integers.
C20_HistoryIdsGapless ==
    /\ eventId > 0 => /\ Len(eventCache) > 0
                      /\ eventCache[Len(eventCache)].id = eventId
    /\ \A i \in 1..(Len(eventCache) - 1) : eventCache[i + 1].id = eventCache[i].id + 1

----------------------------------------------------------------------------
\* C21: the event cache is ordered by id: in every reachable state its
\* entries carry strictly increasing ids (so no id occurs twice), and in
\* every step the new cache is a tail of the old one followed by entries
\* with ids the counter had not yet handed out: entries leave at the front
\* only and enter at the back only.
C21_HistoryOrdered ==
    /\ [](Ascending(eventCache))
    /\ [][\E k \in 0..Len(eventCache) :
             LET kept == SubSeq(eventCache, k + 1, Len(eventCache))
             IN  /\ Len(eventCache') >= Len(kept)
                 /\ SubSeq(eventCache', 1, Len(kept)) = kept
                 /\ \A i \in (Len(kept) + 1)..Len(eventCache') :
                       eventCache'[i].id > eventId]_vars

\* The cache is full after an eviction, and holds a welcome event followed
\* by a broadcast event with a larger id.
C21_Witness ==
    /\ Len(eventCache) = MAX_CACHE_SIZE
    /\ eventCache[1].id > 1
    /\ eventCache[1].type = "system"
    /\ eventCache[2].type = "message"
    /\ eventCache[1].id < eventCache[2].id

----------------------------------------------------------------------------
\* The number of words of the text a partial-message frame carries.
Words(f) == Len(split(f.data.message))
\* A step is step k of a chunked broadcast and nothing more: a delivery
\* attempt is made on every registered stream (each attempt takes an event
\* id), every registered stream that accepts writes gets exactly one frame,
\* with k words, no other stream gets anything, and a closure that the step
\* changed stands at k chunks sent.
ChunkStep(k) ==
    /\ eventId' = eventId + Len(clients)
    /\ \A r \in Res :
          IF r \in Healthy
          THEN /\ Len(Written(r)) = 1
               /\ Written(r)[1].type = "partial-message"
               /\ Words(Written(r)[1]) = k
          ELSE sink'[r] = sink[r]
    /\ \A j \in 1..Len(streams') :
          (\E i \in 1..Len(streams) : streams'[j] = streams[i]) \/ streams'[j].chunkIndex = k

\* C22: within one chunked broadcast step k + 1 is written to no stream
\* before the delivery attempt of step k has been made on every stream
\* registered at step k: a call of sendNextChunk by a closure that has sent
\* k chunks is one step, step k + 1, in which every registered stream is
\* attempted once, and step k + 2 is left to a later run of the chunk timer,
\* whatever admissions, teardowns and broadcasts come in between.
C22_ChunkStepsInOrder ==
    [][/\ response'.op = "streamMessage" /\ Len(clients) > 0 => ChunkStep(1)
       /\ \A i \in 1..Len(streams) :
             ChunkTimer(i) => ChunkStep(streams[i].chunkIndex + 1)]_vars

\* The final step of a chunked broadcast of two words has just run on two
\* streams, one of them admitted between the first step and the second:
\* the older stream holds the frames of step 1 and step 2 in this order,
\* the newer one the frame of step 2 only.
C22_Witness ==
    /\ completed = <<2>>
    /\ Len(clients) = 2
    /\ LET old == sink[clients[1].res]
           new == sink[clients[2].res]
       IN  /\ Len(old) >= 2
           /\ old[Len(old) - 1].type = "partial-message" /\ Words(old[Len(old) - 1]) = 1
           /\ old[Len(old)].type = "partial-message" /\ Words(old[Len(old)]) = 2
           /\ new[Len(new)].type = "partial-message" /\ Words(new[Len(new)]) = 2
           /\ new[Len(new) - 1].type = "system"

----------------------------------------------------------------------------
\* C23: a chunked broadcast that has started runs every chunk step exactly
\* once and then ends, whatever happens to the registry: a closure in
\* progress has sent at least one and not yet all of its chunks; only its
\* own timer changes it, by one chunk at a time; it leaves when it has sent
\* its last chunk, and then it logs its completion; and a closure in
\* progress always comes to that end.
C23_ChunkedRunsToCompletion ==
    /\ [](\A i \in 1..Len(streams) :
             /\ streams[i].pending
             /\ 1 <= streams[i].chunkIndex
             /\ streams[i].chunkIndex < Len(streams[i].chunks))
    /\ [][/\ (~(\E i \in 1..Len(streams) : ChunkTimer(i)) /\ response'.op # "streamMessage")
               => streams' = streams
           /\ \A i \in 1..Len(streams) :
                 ChunkTimer(i) =>
                    LET k == streams[i].chunkIndex + 1
                    IN  IF k < Len(streams[i].chunks)
                        THEN /\ Len(streams') = Len(streams)
                             /\ streams'[i].chunks = streams[i].chunks
                             /\ streams'[i].chunkIndex = k
                             /\ completed' = <<>>
                        ELSE /\ Len(streams') = Len(streams) - 1
                             /\ completed' # <<>>]_vars
    /\ (Len(streams) > 0) ~> (completed # <<>>)

\* The final step of a chunked broadcast has just run on an empty
\* registry: every connection left after the broadcast had started.
C23_Witness ==
    /\ completed = <<0>>
    /\ Len(clients) = 0
    /\ eventId > 0

----------------------------------------------------------------------------
\* C24: the delivery count a chunked broadcast logs at its completion is the
\* number of streams that are registered at the final step and whose write
\* in that step succeeds: a closure in progress has counted nothing yet,
\* and the step that completes it logs the number of registered streams
\* that accept writes in that step.
C24_CountAtFinalStep ==
    /\ [](\A i \in 1..Len(streams) : streams[i].successCount = 0)
    /\ [][(Chunk \/ response'.op = "streamMessage") /\ completed' # <<>>
             => /\ completed' = <<Cardinality(Healthy)>>
                /\ \A r \in Healthy :
                      Written(r)[Len(Written(r))].data.isComplete]_vars

\* A chunked broadcast of two steps has just completed with count 1 on two
\* registered streams: both received step 1, and the final write to the
\* first one failed.
C24_Witness ==
    /\ completed = <<1>>
    /\ Len(clients) = 2
    /\ sinkState[clients[1].res] = "broken"
    /\ sinkState[clients[2].res] = "open"
    /\ LET a == sink[clients[1].res]
           b == sink[clients[2].res]
       IN  /\ a[Len(a)].type = "partial-message" /\ ~a[Len(a)].data.isComplete
           /\ b[Len(b)].type = "partial-message" /\ b[Len(b)].data.isComplete
           /\ b[Len(b) - 1].type = "partial-message"

----------------------------------------------------------------------------
\* C25: no broadcast changes the registry: an atomic broadcast and every
\* step of a chunked one leave the registry as it is, also when a write
\* fails, and attempt every registry entry, the streams that failed before
\* included (each attempt takes one event id).
C25_BroadcastKeepsRegistry ==
    [][EmitsToAll => /\ clients' = clients
                     /\ eventId' = eventId + Len(clients)]_vars

\* A second atomic broadcast has just been attempted on a stream whose
\* write had already failed in the first: the stream is still registered,
\* and both attempts took an event id that reached neither the stream nor
\* the cache.
C25_Witness ==
    /\ response = [op |-> "sendMessage", status |-> 200, recipients |-> 0]
    /\ Len(clients) = 1
    /\ sinkState[clients[1].res] = "broken"
    /\ LET own == sink[clients[1].res]
       IN  eventId >= own[Len(own)].id + 2

----------------------------------------------------------------------------
\* The place of the welcome event of a stream: its last system frame.
WelcomeAt(f) ==
    CHOOSE w \in 0..Len(f) :
       /\ w > 0 => f[w].type = "system"
       /\ \A i \in (w + 1)..Len(f) : f[i].type # "system"

\* C26: on the stream of every admitted connection the writes come in this
\* order: the retry directive, the replayed events in ascending order, the
\* welcome system event, and after it broadcast events only; the step that
\* admits a connection writes the first three parts and ends with the
\* connection registered and its welcome event last on the stream.
C26_StreamOrder ==
    /\ [](\A r \in Res :
             sink[r] # <<>> =>
                LET f == sink[r]
                    w == WelcomeAt(f)
                IN  /\ f[1] = RetryFrame
                    /\ w >= 2
                    /\ \A i \in 2..Len(f) : f[i].type # "retry"
                    /\ Ascending(SubSeq(f, 2, Len(f)))
                    /\ \A i \in (w + 1)..Len(f) :
                          f[i].type \in {"message", "partial-message"})
    /\ [][\A h \in LastEventIds :
             Admitted(h) =>
                LET f == sink'[NewRes]
                    missed == IF ~Truthy(h) \/ parseInt(h).nan THEN <<>>
                              ELSE SelectSeq(eventCache, LAMBDA e : e.id > parseInt(h).val)
                IN  /\ sink[NewRes] = <<>>
                    /\ Len(f) = Len(missed) + 2
                    /\ WelcomeAt(f) = Len(f)
                    /\ f[Len(f)].id = eventId + Len(missed) + 1
                    /\ \A i \in 1..Len(missed) : f[i + 1].id = eventId + i
                    /\ ~Registered(NewRes)
                    /\ clients'[Len(clients')].res = NewRes
                    /\ Len(clients') = Len(clients) + 1]_vars

\* A stream holds the retry directive, one replayed event, its welcome
\* event and one broadcast event, in this order.
C26_Witness ==
    \E r \in RegisteredRes :
       /\ Len(sink[r]) = 4
       /\ sink[r][1] = RetryFrame
       /\ sink[r][2].type = "partial-message"
       /\ sink[r][3].type = "system"
       /\ sink[r][4].type = "partial-message"

----------------------------------------------------------------------------
\* C27: the idle timeout tears its connection down: the step in which the
\* timer of a stream fires leaves that stream without a registry entry and
\* ended, and a stream whose timer has fired is never open or registered
\* afterwards, so that a stream whose peer never closes does not stay open
\* outside the registry.
C27_WatchdogTearsDown ==
    /\ [](\A r \in Res :
             timer[r] = "fired" => sinkState[r] = "ended" /\ ~Registered(r))
    /\ [][\A r \in Res :
             IdleTimeout(r) => sinkState'[r] = "ended" /\ ~Registered(r)']_vars

----------------------------------------------------------------------------
\* The teardown log records of the stream on res.  The timer callback logs
\* its record in the branch that also ends the response, so the record has
\* been written exactly when the timer has fired and the stream is ended;
\* the "close" handler logs its record whenever it runs.
TimeoutRecords(res) ==
    IF timer[res] = "fired" /\ sinkState[res] = "ended" THEN 1 ELSE 0
DisconnectionRecords(res) == IF RequestClose(res) THEN 1 ELSE 0

\* C28: at most one teardown log record (timeout or disconnection) is
\* written per admitted connection: when the "close" handler of a stream
\* runs, the records of that stream, its own included, are not more than
\* one, also when the idle timeout has fired before.
C28_OneTeardownRecord ==
    [][\A r \in Res :
          RequestClose(r) => TimeoutRecords(r) + DisconnectionRecords(r) <= 1]_vars

----------------------------------------------------------------------------
\* The frames a chunk step writes carry a whole percentage p that is not
\* below floor, and say they are complete exactly when p = 100, which is
\* the case exactly when the step is the last one of its broadcast.
ProgressStep(least, last) ==
    \A r \in Res :
       \A i \in 1..Len(Written(r)) :
          LET d == Written(r)[i].data
          IN  /\ d.progress \in 0..100
              /\ d.progress >= least
              /\ d.isComplete \in BOOLEAN
              /\ d.isComplete <=> d.progress = 100
              /\ d.isComplete <=> last

\* C29: across the steps of one chunked broadcast the progress is an integer
\* in 0..100 that never decreases from one step to the next, it is 100
\* exactly at the step whose isComplete is true, the last one, and every
\* earlier step has progress < 100 and isComplete false.
C29_ProgressMonotone ==
    [][/\ response'.op = "streamMessage" /\ Len(clients) > 0
            => ProgressStep(0, completed' # <<>>)
       /\ \A i \in 1..Len(streams) :
             ChunkTimer(i) =>
                ProgressStep(Progress(streams[i].chunkIndex, Len(streams[i].chunks)),
                             streams[i].chunkIndex + 1 = Len(streams[i].chunks))]_vars

\* A stream has received the last two steps of a broadcast of MaxWords
\* words: a progress just below 100 and not complete, then 100 and complete.
C29_Witness ==
    \E r \in RegisteredRes :
       LET f == sink[r]
       IN  /\ Len(f) >= MaxWords
           /\ f[Len(f)].data.progress = 100
           /\ f[Len(f)].data.isComplete
           /\ f[Len(f) - 1].data.progress \in 95..99
           /\ ~f[Len(f) - 1].data.isComplete

----------------------------------------------------------------------------
\* C30: an admission is one step with respect to the broadcasts: the step
\* that scans the cache for the replay also registers the new stream, writes
\* to no other stream and runs no chunk step, so every event emitted from
\* the scan on is written to the new stream, in that step or, the stream
\* being registered and open after it, by the broadcast that emits it.
C30_AdmissionAtomic ==
    [][/\ \A h \in LastEventIds :
             Admitted(h) =>
                /\ \A q \in Res \ {NewRes} : sink'[q] = sink[q]
                /\ streams' = streams
                /\ Ids(Written(NewRes)) \ {RetryFrame.id} = (eventId + 1)..eventId'
                /\ Ids(Pushed) \subseteq Ids(Written(NewRes))
                /\ SubSeq(clients', 1, Len(clients)) = clients
                /\ Len(clients') = Len(clients) + 1
                /\ clients'[Len(clients')].res = NewRes
                /\ sinkState'[NewRes] = "open"
       /\ EmitsToAll => \A r \in Healthy : Len(Written(r)) = 1]_vars

\* A stream admitted with Last-Event-ID 0 during a chunked broadcast has
\* got the two cached events replayed, its welcome event and then the next
\* chunk step, the same one the older stream has got.
C30_Witness ==
    /\ Len(clients) = 2
    /\ LET old == sink[clients[1].res]
           new == sink[clients[2].res]
       IN  /\ Len(new) = 5
           /\ new[5].type = "partial-message"
           /\ old[Len(old)].type = "partial-message"
           /\ new[5].data = old[Len(old)].data
           /\ new[3].type = "partial-message"
           /\ Words(new[3]) + 1 = Words(new[5])

----------------------------------------------------------------------------
\* The streams a reconnecting client may have held before: the peer is gone
\* (or the idle timeout has ended the stream) and the last frame written to
\* it carries the id the client sends as Last-Event-ID.
EarlierStreams(lastEventId) ==
    {r \in Res : /\ sinkState[r] \in {"broken", "ended"}
                 /\ Len(sink[r]) > 1
                 /\ sink[r][Len(sink[r])].id = parseInt(lastEventId).val}

\* C31: a client that reconnects with the id of the last event it received
\* is replayed only events it has not received: no replayed frame carries a
\* payload (type and data) that was written to its earlier stream.
C31_ReplayOnlyMissed ==
    [][\A h \in LastEventIds :
          Admitted(h) /\ Truthy(h) /\ ~parseInt(h).nan =>
             \A r \in EarlierStreams(h) :
                \A i \in 1..Len(Replayed), j \in 2..Len(sink[r]) :
                   Payloads(Replayed)[i] # Payloads(sink[r])[j]]_vars

----------------------------------------------------------------------------
\* C32: on every stream the ids of the events written are strictly
\* increasing over the whole life of the stream: replayed events, the
\* welcome event and live broadcasts; what has been written stays as it is,
\* and the last id written is the largest one.
C32_SinkIdsIncrease ==
    /\ [](\A r \in Res :
             \A i \in 2..Len(sink[r]) :
                /\ sink[r][i].id >= 1
                /\ i > 2 => sink[r][i - 1].id < sink[r][i].id
                /\ sink[r][i].id <= sink[r][Len(sink[r])].id)
    /\ [][\A r \in Res :
             sink'[r] # <<>> /\ sink[r] # <<>> =>
                /\ Len(sink'[r]) >= Len(sink[r])
                /\ SubSeq(sink'[r], 1, Len(sink[r])) = sink[r]
                /\ \A i \in 1..Len(Written(r)) :
                      Written(r)[i].id > sink[r][Len(sink[r])].id]_vars

\* A stream has got replayed events, its welcome event and a live
\* broadcast, and its ids have a gap that another stream's events fill.
C32_Witness ==
    \E r \in RegisteredRes :
       LET f == sink[r]
       IN  /\ Len(f) >= 5
           /\ f[Len(f)].type = "partial-message"
           /\ \E i \in 2..Len(f) : f[i].type = "system"
           /\ f[Len(f)].id > f[Len(f) - 1].id + 1

----------------------------------------------------------------------------
RECURSIVE JoinWords(_)
\* The pieces joined by single spaces.
JoinWords(chunks) ==
    IF Len(chunks) = 0 THEN <<>>
    ELSE IF Len(chunks) = 1 THEN chunks[1]
    ELSE chunks[1] \o <<" ">> \o JoinWords(Tail(chunks))

\* C33: a chunk step run by the timer is written to the streams registered
\* (and accepting writes) at that step, one frame each, whether or not they
\* were registered when the broadcast began, and to no other stream; in the
\* final step each of them gets the frame with all chunks joined and
\* isComplete true.
C33_StepGoesToCurrentRegistry ==
    [][\A k \in 1..Len(streams) :
          ChunkTimer(k) =>
             \A r \in Res :
                IF r \in Healthy
                THEN /\ Len(Written(r)) = 1
                     /\ Written(r)[1].type = "partial-message"
                     /\ streams[k].chunkIndex + 1 = Len(streams[k].chunks) =>
                           /\ Written(r)[1].data.isComplete
                           /\ Written(r)[1].data.message = JoinWords(streams[k].chunks)
                ELSE sink'[r] = sink[r]]_vars

\* A stream admitted after the first step of a broadcast of two chunks,
\* with nothing replayed, has got the final frame and no earlier one.
C33_Witness ==
    /\ completed # <<>>
    /\ \E r \in Healthy :
          /\ Len(sink[r]) = 3
          /\ sink[r][2].type = "system"
          /\ sink[r][3].type = "partial-message"
          /\ sink[r][3].data.isComplete
          /\ Len(split(sink[r][3].data.message)) = 2

----------------------------------------------------------------------------
----------------------------------------------------------------------------
\* The EventSource objects that are not closed, and the timers that are set.
LiveSources == {i \in 1..Len(sources) : sources[i] # "closed"}
ArmedTimers == {t \in 1..Len(timers) : timers[t].state = "armed"}

\* The closure has given up: five attempts were made since the last open,
\* no EventSource is left and no timer is set.
Exhausted ==
    /\ reconnectAttempts = MAX_RECONNECT_ATTEMPTS
    /\ LiveSources = {}
    /\ ArmedTimers = {}

\* C35: reconnectAttempts never exceeds MAX_RECONNECT_ATTEMPTS; every open
\* resets it to 0; every reconnect that is scheduled counts as one attempt
\* and is made while the count is within the limit; when a connection fails
\* with the limit reached no reconnect is scheduled, and from then on the
\* reported state stays "disconnected".
C35_ReconnectBound ==
    /\ [](reconnectAttempts \in 0..MAX_RECONNECT_ATTEMPTS)
    /\ [][/\ Opens => reconnectAttempts' = 0
          /\ Len(timers') > Len(timers) =>
                /\ Len(timers') = Len(timers) + 1
                /\ reconnectAttempts' = reconnectAttempts + 1
          /\ Reconnects => reconnectAttempts' \in 1..MAX_RECONNECT_ATTEMPTS
          /\ Fails /\ reconnectAttempts = MAX_RECONNECT_ATTEMPTS =>
                /\ timers' = timers
                /\ Exhausted'
          /\ Exhausted /\ reported = "disconnected" =>
                /\ Exhausted'
                /\ sources' = sources
                /\ reported' = "disconnected"]_vars

\* Six connections have failed in a row, the first and five reconnects: the
\* closure has given up and reports "disconnected".
C35_Witness ==
    /\ Exhausted
    /\ reported = "disconnected"
    /\ Len(sources) = MAX_RECONNECT_ATTEMPTS + 1
    /\ \A t \in 1..Len(timers) : timers[t].state = "fired"
    /\ Len(timers) = MAX_RECONNECT_ATTEMPTS

----------------------------------------------------------------------------
\* Nothing of the handle is left: no EventSource, no timer, and the state
\* last reported is "disconnected".
Quiescent ==
    /\ sseConnection = 0
    /\ LiveSources = {}
    /\ ArmedTimers = {}
    /\ reported = "disconnected"

\* C36: close() leaves the handle with no EventSource that is not closed, no
\* reconnect timer pending and "disconnected" as the last reported state,
\* and a handle in that condition stays in it: no EventSource and no timer
\* is created any more; at any time at most one EventSource of the handle
\* is not closed and at most one of its timers is pending.
C36_CloseIsFinal ==
    /\ [](Cardinality(LiveSources) <= 1 /\ Cardinality(ArmedTimers) <= 1)
    /\ [][/\ CloseHandle => Quiescent' /\ reconnectTimer' = 0
          /\ Quiescent =>
                /\ Quiescent'
                /\ sources' = sources
                /\ Len(timers') = Len(timers)]_vars

\* close() has been called while a reconnect was pending: the timer is
\* cleared and nothing is left.
C36_Witness ==
    /\ Quiescent
    /\ reconnectTimer = 0
    /\ \E t \in 1..Len(timers) : timers[t].state = "cleared"

----------------------------------------------------------------------------
IsProperPrefix(a, b) == Len(a) < Len(b) /\ SubSeq(b, 1, Len(a)) = a

\* C37: when the page has been handed the final frame of a chunked
\* broadcast, its list ends with the entry of that frame, of type message,
\* and holds no partial-message entry of that broadcast (same time, a
\* shorter prefix of the text), also when other events arrived between the
\* chunks.
C37_NoPartialLeftBehind ==
    [][received' = received + 1 =>
          LET frame == sink[PageRes][received + 1]
          IN  frame.type = "partial-message" /\ frame.data.isComplete =>
                 /\ Last(pageEvents').eventType = "message"
                 /\ Last(pageEvents').message = frame.data.message
                 /\ \A i \in 1..Len(pageEvents') :
                       pageEvents'[i].eventType = "partial-message" =>
                          ~(/\ pageEvents'[i].time = frame.data.time
                            /\ IsProperPrefix(pageEvents'[i].message,
                                              frame.data.message))]_vars

----------------------------------------------------------------------------
\* C38: the reported state is "connected" only while the EventSource of the
\* closure is open: after an error that leaves the EventSource connecting or
\* closed, another state has been reported.
C38_ConnectedMeansOpen ==
    reported = "connected" => sseConnection # 0 /\ sources[sseConnection] = "open"

====
